---- MODULE Spec2Model ----
(***************************************************************************)
(* EchoCopi memory engine (src/src/echo_memory.py): the checksummed event  *)
(* journal, the evolution aggregate and the startup resume reconciler.     *)
(*                                                                         *)
(* Python values are tagged records [kind, val]; a dict is the sequence of *)
(* its <<key, value>> items in insertion order, as CPython keeps them.     *)
(* JSON text is a separate tagged tree, so json.dump followed by json.load *)
(* is a computation, not the identity: keys are coerced to strings on the  *)
(* way out, and sort_keys orders the keys the dict holds at that moment.   *)
(***************************************************************************)
EXTENDS Integers, Sequences, FiniteSets, TLC

VARIABLES
    now,             \* the latest reading of datetime.now(), in seconds
    state_file,      \* <log_dir>/echo_state/state.json
    plan_files,      \* names present in <log_dir>/echo_state/plan
    markers,         \* names present in <log_dir>/echo_state/checkpoints
    evolution_file,  \* <log_dir>/evolution.json
    session_files,   \* session id -> lines of <log_dir>/session_<id>.jsonl
    running,         \* an EchoMemoryEngine object exists
    session_id,      \* self.session_id
    thoughts,        \* self.thoughts
    evolution_data,  \* self.evolution_data
    echo_state,      \* self.echo_state
    result           \* outcome of the most recent call

disk == <<state_file, plan_files, markers, evolution_file, session_files>>
engine == <<running, session_id, thoughts, evolution_data, echo_state>>
vars == <<now, state_file, plan_files, markers, evolution_file, session_files,
          running, session_id, thoughts, evolution_data, echo_state, result>>

-----------------------------------------------------------------------------
(* Bounds *)

MaxSessions == 2     \* engine startups per log directory
MaxThoughts == 2     \* journal appends per log directory
MaxMarkers == 3      \* checkpoint markers present at once

-----------------------------------------------------------------------------
(* Python values *)

PyStr(s) == [kind |-> "str", val |-> s]
PyInt(n) == [kind |-> "int", val |-> n]
PyBool(b) == [kind |-> "bool", val |-> b]
PyNone == [kind |-> "none", val |-> 0]
PyList(xs) == [kind |-> "list", val |-> xs]
PyDict(items) == [kind |-> "dict", val |-> items]

\* datetime.now().isoformat() read in second t
IsoFormat(t) == [kind |-> "time", val |-> t]
\* datetime.now().strftime("%Y%m%d_%H%M%S") read in second t
StrfTime(t) == [kind |-> "sid", val |-> t]
\* an f-string: the literal pieces and the formatted values, in order
FString(parts) == [kind |-> "fmt", val |-> parts]

StrKinds == {"str", "time", "sid", "fmt", "digest", "pct"}

\* bool(v) as used by `x or default` and `if not x`
Truthy(v) ==
    CASE v.kind = "none" -> FALSE
      [] v.kind = "bool" -> v.val
      [] v.kind = "int" -> v.val # 0
      [] v.kind = "str" -> v.val # ""
      [] v.kind \in {"list", "dict"} -> Len(v.val) > 0
      [] OTHER -> TRUE

\* x or default
Or(x, default) == IF Truthy(x) THEN x ELSE default

Keys(d) == {d.val[i][1] : i \in 1..Len(d.val)}
\* k in d
Has(d, k) == \E i \in 1..Len(d.val) : d.val[i][1] = k
\* d[k]
Get(d, k) == LET i == CHOOSE i \in 1..Len(d.val) : d.val[i][1] = k IN d.val[i][2]
\* d.get(k)
GetOrNone(d, k) == IF Has(d, k) THEN Get(d, k) ELSE PyNone
\* d[k] = v: an existing key keeps its position, a new key goes last
Put(d, k, v) ==
    IF Has(d, k)
    THEN PyDict([i \in 1..Len(d.val) |->
                    IF d.val[i][1] = k THEN <<k, v>> ELSE d.val[i]])
    ELSE PyDict(Append(d.val, <<k, v>>))
\* {k: v for k, v in d.items() if k != drop}
Without(d, drop) == PyDict(SelectSeq(d.val, LAMBDA it : it[1] # drop))

S(s) == PyStr(s)

-----------------------------------------------------------------------------
(* json.dumps / json.loads *)

\* Code-point order of the strings that occur as mapping keys.
StrOrder == <<"10", "2", "9", "a", "agent_version", "args", "auth", "b",
              "checksum", "completed_steps", "component", "connections",
              "content", "context", "created", "current_plan",
              "current_step", "db", "description", "evidence", "examples",
              "external_signals_created", "impact", "learned",
              "learning_milestones", "lines", "milestone", "next_step",
              "pattern", "pattern_recognition", "plan_file", "preference",
              "references", "session_id", "sessions", "signal_created",
              "signal_topic", "started", "state", "system_understanding",
              "tags", "thought", "timestamp", "topic", "total_sessions",
              "total_thoughts", "type", "understanding", "value", "version",
              "z">>
StrRank == [s \in {StrOrder[i] : i \in 1..Len(StrOrder)} |->
               CHOOSE i \in 1..Len(StrOrder) : StrOrder[i] = s]

\* a plausible slip: sort_keys is left out, the keys stay in insertion order
KeyLessInsertion(k1, k2) == FALSE

\* k1 < k2 as sorted() compares two keys of one mapping: integers by value,
\* strings by code point.  (A mapping mixing the two makes sorted() raise
\* TypeError; no input of the model does.)
KeyLess(k1, k2) ==
    IF k1.kind = "int" THEN k1.val < k2.val
    ELSE StrRank[k1.val] < StrRank[k2.val]

RECURSIVE SortItems(_)
\* sorted(d.items()) for the items of one mapping
SortItems(items) ==
    IF Len(items) <= 1 THEN items
    ELSE LET pivot == Head(items)
             before == SelectSeq(Tail(items), LAMBDA it : KeyLess(it[1], pivot[1]))
             after == SelectSeq(Tail(items), LAMBDA it : ~KeyLess(it[1], pivot[1]))
         IN SortItems(before) \o <<pivot>> \o SortItems(after)

\* The JSON member name json.dumps writes for a key: str as is, int in decimal.
KeyText(k) == IF k.kind = "int" THEN PyStr(ToString(k.val)) ELSE k

JStr(s) == [kind |-> "jstr", val |-> s]
JNum(n) == [kind |-> "jnum", val |-> n]
JLit(w) == [kind |-> "jlit", val |-> w]
JArr(xs) == [kind |-> "jarr", val |-> xs]
JObj(members) == [kind |-> "jobj", val |-> members]

RECURSIVE JsonDumps(_, _)
JsonDumps(v, sort_keys) ==
    CASE v.kind \in StrKinds -> JStr(v)
      [] v.kind = "int" -> JNum(v.val)
      [] v.kind = "bool" -> JLit(IF v.val THEN "true" ELSE "false")
      [] v.kind = "none" -> JLit("null")
      [] v.kind = "list" ->
            JArr([i \in 1..Len(v.val) |-> JsonDumps(v.val[i], sort_keys)])
      [] v.kind = "dict" ->
            LET items == IF sort_keys THEN SortItems(v.val) ELSE v.val
            IN JObj([i \in 1..Len(items) |->
                        <<KeyText(items[i][1]), JsonDumps(items[i][2], sort_keys)>>])

RECURSIVE JsonLoads(_)
RECURSIVE LoadMembers(_, _)
\* members are stored left to right; a repeated name overwrites in place
LoadMembers(members, acc) ==
    IF Len(members) = 0 THEN acc
    ELSE LoadMembers(Tail(members),
                     Put(acc, Head(members)[1], JsonLoads(Head(members)[2])))
JsonLoads(j) ==
    CASE j.kind = "jstr" -> j.val
      [] j.kind = "jnum" -> PyInt(j.val)
      [] j.kind = "jlit" ->
            IF j.val = "null" THEN PyNone ELSE PyBool(j.val = "true")
      [] j.kind = "jarr" -> PyList([i \in 1..Len(j.val) |-> JsonLoads(j.val[i])])
      [] j.kind = "jobj" -> LoadMembers(j.val, PyDict(<<>>))

\* hashlib.sha256(text.encode()).hexdigest(): a string determined by the text,
\* distinct texts giving distinct digests.
Sha256(text) == [kind |-> "digest", val |-> text]

\* a plausible slip: only the scalar fields are hashed, the context is left out
_hash_entry_without_context(entry) ==
    Sha256(JsonDumps(Without(Without(entry, S("checksum")), S("context")), TRUE))

_hash_entry(entry) == Sha256(JsonDumps(Without(entry, S("checksum")), TRUE))

\* a plausible slip: a record without a checksum passes
verify_integrity_lenient(entry) ==
    IF ~Has(entry, S("checksum")) THEN TRUE
    ELSE Get(entry, S("checksum")) = _hash_entry(entry)

verify_integrity(entry) ==
    IF ~Has(entry, S("checksum")) THEN FALSE
    ELSE Get(entry, S("checksum")) = _hash_entry(entry)

-----------------------------------------------------------------------------
(* Files *)

Absent == [kind |-> "absent", val |-> 0]
\* a file holding the JSON text j
TextFile(j) == [kind |-> "file", val |-> j]
\* a file whose content is not JSON
Garbage == [kind |-> "garbage", val |-> 0]
\* a path that exists but cannot be read as text (a directory, no permission)
Unreadable == [kind |-> "unreadable", val |-> 0]

\* A directory entry name is <<prefix, characters, extension>>:
\* <<"step-", <<"0", "1">>, ".ok">> is step-01.ok.
Name(prefix, chars, ext) == <<prefix, chars, ext>>

\* checkpoint_dir.glob("step-*.ok")
Glob(dir) == {e \in dir : e[1] = "step-" /\ e[3] = ".ok"}

\* marker.stem.split("-", 1)[1] of a globbed name
StemSuffix(e) == e[2]

Digits == <<"0", "1", "2", "3", "4", "5", "6", "7", "8", "9">>
IsDigit(c) == \E d \in 1..10 : Digits[d] = c
DigitVal(c) == (CHOOSE d \in 1..10 : Digits[d] = c) - 1

RECURSIVE DecimalVal(_, _)
DecimalVal(chars, acc) ==
    IF Len(chars) = 0 THEN acc
    ELSE DecimalVal(Tail(chars), 10 * acc + DigitVal(Head(chars)))

\* int(text): an optional sign and at least one decimal digit, else ValueError
IntParses(chars) ==
    LET body == IF Len(chars) > 0 /\ Head(chars) \in {"-", "+"}
                THEN Tail(chars) ELSE chars
    IN Len(body) > 0 /\ \A i \in 1..Len(body) : IsDigit(body[i])
IntOf(chars) ==
    IF Head(chars) = "-" THEN 0 - DecimalVal(Tail(chars), 0)
    ELSE IF Head(chars) = "+" THEN DecimalVal(Tail(chars), 0)
    ELSE DecimalVal(chars, 0)

\* the orders in which a directory listing can enumerate a set of names
RECURSIVE Listings(_)
Listings(set) ==
    IF set = {} THEN {<<>>}
    ELSE UNION {{<<e>> \o rest : rest \in Listings(set \ {e})} : e \in set}

RECURSIVE Sorted(_)
\* sorted(xs) for a list of ints
Sorted(xs) ==
    IF Len(xs) = 0 THEN <<>>
    ELSE LET m == CHOOSE i \in 1..Len(xs) : \A j \in 1..Len(xs) : xs[i] <= xs[j]
             rest == [j \in 1..(Len(xs) - 1) |-> IF j < m THEN xs[j] ELSE xs[j + 1]]
         IN <<xs[m]>> \o Sorted(rest)

\* max(xs) for a non-empty list of ints
Max(xs) == CHOOSE v \in {xs[i] : i \in 1..Len(xs)} : \A j \in 1..Len(xs) : xs[j] <= v

-----------------------------------------------------------------------------
(* Call outcomes *)

Return(op, v) == [op |-> op, outcome |-> "return", value |-> v]
Raise(op, exc) == [op |-> op, outcome |-> "raise", value |-> PyStr(exc)]

-----------------------------------------------------------------------------
(* Evolution aggregate *)

\* d[k] += 1
Incr(d, k) == Put(d, S(k), PyInt(Get(d, S(k)).val + 1))
\* d[k].append(x)
ListAppend(d, k, x) == Put(d, S(k), PyList(Append(Get(d, S(k)).val, x)))

FreshEvolution(t) ==
    PyDict(<< <<S("created"), IsoFormat(t)>>,
              <<S("total_sessions"), PyInt(0)>>,
              <<S("total_thoughts"), PyInt(0)>>,
              <<S("learning_milestones"), PyList(<<>>)>>,
              <<S("pattern_recognition"), PyList(<<>>)>>,
              <<S("system_understanding"), PyDict(<<>>)>>,
              <<S("external_signals_created"), PyInt(0)>>,
              <<S("sessions"), PyList(<<>>)>> >>)

\* a plausible slip: every startup begins a new aggregate
_load_evolution_fresh(file, t) == FreshEvolution(t)

\* the document _load_evolution returns; t is the clock reading
_load_evolution(file, t) ==
    IF file.kind = "file" THEN JsonLoads(file.val)
    ELSE FreshEvolution(t)

\* the content of evolution.json after _save_evolution
_save_evolution(data) == TextFile(JsonDumps(data, FALSE))

\* evolution_data after _log_session_start
_log_session_start(data, sid, t) ==
    LET session_metadata ==
            PyDict(<< <<S("session_id"), sid>>,
                      <<S("started"), IsoFormat(t)>>,
                      <<S("context"), S("EchoCopi Framework Session")>>,
                      <<S("agent_version"), S("Generic AI Agent")>> >>)
    IN ListAppend(Incr(data, "total_sessions"), "sessions", session_metadata)

-----------------------------------------------------------------------------
(* Resume reconciler *)

\* a plausible slip: the default state is written at every startup
_init_echo_dirs_always(file) ==
    TextFile(JsonDumps(PyDict(<< <<S("version"), PyInt(1)>>,
                                 <<S("current_plan"), PyNone>>,
                                 <<S("current_step"), PyInt(0)>>,
                                 <<S("args"), PyDict(<<>>)>> >>), FALSE))

\* the state.json _init_echo_dirs leaves behind
_init_echo_dirs(file) ==
    IF file.kind = "absent"
    THEN TextFile(JsonDumps(PyDict(<< <<S("version"), PyInt(1)>>,
                                      <<S("current_plan"), PyNone>>,
                                      <<S("current_step"), PyInt(0)>>,
                                      <<S("args"), PyDict(<<>>)>> >>), FALSE))
    ELSE file

\* completed_steps as the glob loop builds it from one directory listing
CompletedSteps(listing) ==
    LET parsed == SelectSeq(listing, LAMBDA e : IntParses(StemSuffix(e)))
    IN [i \in 1..Len(parsed) |-> IntOf(StemSuffix(parsed[i]))]

\* a plausible slip: the step after the number of markers, not after the highest
NextStepByCount(completed_steps) == Len(completed_steps) + 1

\* next_step = max(completed_steps) + 1 if completed_steps else 1
NextStep(completed_steps) ==
    IF Len(completed_steps) > 0 THEN Max(completed_steps) + 1 ELSE 1

\* a plausible slip: the plan path is used without the existence test
PlanFileAssumed(plans, plan_name) == TRUE

\* plan_file.exists() for plan_file = plans / plan_name
PlanFileExists(plans, plan_name) == plan_name.val \in plans

\* resume_on_startup: file is state.json, plans the plan directory, listing
\* the order in which glob yields the checkpoint markers
resume_on_startup(file, plans, listing) ==
    IF file.kind = "absent" THEN Return("resume_on_startup", PyNone)
    ELSE IF file.kind # "file" THEN Return("resume_on_startup", PyNone)
    ELSE LET state == JsonLoads(file.val) IN
    IF state.kind # "dict" THEN Raise("resume_on_startup", "AttributeError")
    ELSE LET plan_name == GetOrNone(state, S("current_plan")) IN
    IF ~Truthy(plan_name) THEN Return("resume_on_startup", state)
    ELSE IF plan_name.kind \notin StrKinds
         THEN Raise("resume_on_startup", "TypeError")
    ELSE IF ~PlanFileExists(plans, plan_name)
         THEN Return("resume_on_startup", state)
    ELSE LET completed_steps == CompletedSteps(listing)
             next_step == NextStep(completed_steps)
         IN Return("resume_on_startup",
                PyDict(<< <<S("state"), state>>,
                          <<S("plan_file"), FString(<<"plan/", plan_name.val>>)>>,
                          <<S("completed_steps"),
                            PyList([i \in 1..Len(completed_steps) |->
                                       PyInt(Sorted(completed_steps)[i])])>>,
                          <<S("next_step"), PyInt(next_step)>> >>))

-----------------------------------------------------------------------------
(* Engine construction and process exit *)

NoEngine ==
    /\ running' = FALSE
    /\ session_id' = PyNone
    /\ thoughts' = <<>>
    /\ evolution_data' = PyNone
    /\ echo_state' = PyNone

SessionsStarted ==
    IF evolution_file.kind = "file"
    THEN Get(JsonLoads(evolution_file.val), S("total_sessions")).val
    ELSE 0

\* EchoMemoryEngine.__init__; t is what datetime.now() returns, which the
\* constructor reads only after resume_on_startup has returned
__init__(t) ==
    /\ ~running
    /\ SessionsStarted < MaxSessions
    /\ state_file' = _init_echo_dirs(state_file)
    /\ \E listing \in Listings(Glob(markers)) :
        LET resumed == resume_on_startup(state_file', plan_files, listing) IN
        IF resumed.outcome = "raise"
        THEN /\ NoEngine
             /\ result' = Raise("__init__", resumed.value.val)
             /\ UNCHANGED <<now, evolution_file>>
        ELSE IF evolution_file.kind \notin {"absent", "file"}
        THEN \* json.load in _load_evolution raises on a file that is not JSON
             /\ NoEngine
             /\ result' = Raise("__init__", "JSONDecodeError")
             /\ UNCHANGED <<now, evolution_file>>
        ELSE LET loaded == _load_evolution(evolution_file, t)
                 started == _log_session_start(loaded, StrfTime(t), t)
             IN /\ now' = t
                /\ running' = TRUE
                /\ echo_state' = resumed.value
                /\ session_id' = StrfTime(t)
                /\ thoughts' = <<>>
                /\ evolution_data' = started
                /\ evolution_file' = _save_evolution(started)
                /\ result' = Return("__init__", PyNone)
    /\ UNCHANGED <<plan_files, markers, session_files>>

\* the host process ends; the engine object is gone, the files stay
Exit ==
    /\ running
    /\ NoEngine
    /\ result' = Return("exit", PyNone)
    /\ UNCHANGED <<now, disk>>

\* What datetime.now() returns to a starting process.  The first process
\* starts in second 0; a later one starts in the second in which the previous
\* one started or in the next second.  Within one run the model keeps the
\* clock in the second of the startup.
Clock == IF evolution_file.kind = "absent" THEN {now} ELSE {now, now + 1}

-----------------------------------------------------------------------------
(* Event journal *)

EXTERNAL_INTEGRATION_AVAILABLE == FALSE

\* the signal_data _create_external_signal returns
_create_external_signal(thought_type, content, context, sid, t) ==
    LET category ==
            CASE thought_type = S("pattern_recognition") -> "code_pattern"
              [] thought_type = S("problem_solving") -> "solution_approach"
              [] thought_type = S("system_understanding") -> "architecture_insight"
              [] thought_type = S("user_interaction") -> "user_preference"
              [] thought_type = S("learning") -> "evolution_milestone"
              [] OTHER -> "general_insight"
    IN PyDict(<< <<S("topic"), FString(<<"Echo_", category, "_", ToString(t)>>)>>,
                 <<S("content"),
                   PyDict(<< <<S("thought"), content>>,
                             <<S("type"), thought_type>>,
                             <<S("context"), context>>,
                             <<S("value"), S("AI insight for external system")>> >>)>>,
                 <<S("tags"), PyList(<<S("ai_thought"), S("external_signal"), S(category)>>)>>,
                 <<S("references"), PyDict(<< <<S("session_id"), sid>> >>)>> >>)

\* thought_entry as log_thought has it just before the checksum is attached
ThoughtFields(thought_type, content, context, create_signal, t) ==
    LET thought_entry ==
            PyDict(<< <<S("timestamp"), IsoFormat(t)>>,
                      <<S("session_id"), session_id>>,
                      <<S("type"), thought_type>>,
                      <<S("content"), content>>,
                      <<S("context"), Or(context, PyDict(<<>>))>>,
                      <<S("signal_created"), PyBool(FALSE)>> >>)
    IN IF create_signal /\ EXTERNAL_INTEGRATION_AVAILABLE
       THEN LET signal == _create_external_signal(thought_type, content,
                                                  context, session_id, t)
            IN Put(Put(thought_entry, S("signal_created"), PyBool(TRUE)),
                   S("signal_topic"),
                   IF Has(signal, S("topic")) THEN Get(signal, S("topic"))
                   ELSE S("unknown"))
       ELSE thought_entry

\* a plausible slip: the checksum is taken before the context is filled in
AttachChecksumBeforeContext(thought_entry) ==
    Put(thought_entry, S("checksum"),
        _hash_entry(Without(thought_entry, S("context"))))

\* thought_entry["checksum"] = self._hash_entry(thought_entry)
AttachChecksum(thought_entry) ==
    Put(thought_entry, S("checksum"), _hash_entry(thought_entry))

\* a plausible slip: the file is opened with "w" instead of "a"
AppendLineTruncating(files, sid, line) ==
    [f \in (DOMAIN files) \cup {sid} |-> IF f = sid THEN <<line>> ELSE files[f]]

\* the file after open(path, "a") and one written line
AppendLine(files, sid, line) ==
    [f \in (DOMAIN files) \cup {sid} |->
        IF f = sid
        THEN (IF sid \in DOMAIN files THEN Append(files[sid], line) ELSE <<line>>)
        ELSE files[f]]

JournalLines ==
    LET RECURSIVE Count(_)
        Count(ids) == IF ids = {} THEN 0
                      ELSE LET f == CHOOSE f \in ids : TRUE
                           IN Len(session_files[f]) + Count(ids \ {f})
    IN Count(DOMAIN session_files)

\* a plausible slip: the aggregate is written before the counter is updated
SaveThenCount(data) ==
    [memory |-> Incr(data, "total_thoughts"), file |-> _save_evolution(data)]

\* self.evolution_data["total_thoughts"] += 1; self._save_evolution()
CountThenSave(data) ==
    LET counted == Incr(data, "total_thoughts")
    IN [memory |-> counted, file |-> _save_evolution(counted)]

\* log_thought; data is self.evolution_data as the caller left it, t the
\* clock reading of the call
log_thought(thought_type, content, context, create_signal, data, t) ==
    LET fields == ThoughtFields(thought_type, content, context, create_signal, t)
        signalled == IF create_signal /\ EXTERNAL_INTEGRATION_AVAILABLE
                     THEN Incr(data, "external_signals_created") ELSE data
        thought_entry == AttachChecksum(fields)
        updated == CountThenSave(signalled)
    IN /\ running
       /\ JournalLines < MaxThoughts
       /\ thoughts' = Append(thoughts, thought_entry)
       /\ session_files' = AppendLine(session_files, session_id,
                                      JsonDumps(thought_entry, FALSE))
       /\ evolution_data' = updated.memory
       /\ evolution_file' = updated.file
       /\ result' = Return("log_thought", thought_entry)
       /\ UNCHANGED <<now, state_file, plan_files, markers, running,
                      session_id, echo_state>>

PatternNames(data) ==
    LET ps == Get(data, S("pattern_recognition")).val
    IN {Get(ps[i], S("pattern")) : i \in 1..Len(ps)}

\* a plausible slip: the membership test is dropped
IsNewPatternAlways(data, pattern_name) == TRUE

\* pattern_name not in [p["pattern"] for p in ...["pattern_recognition"]]
IsNewPattern(data, pattern_name) == pattern_name \notin PatternNames(data)

recognize_pattern(pattern_name, description, evidence, notify_external, t) ==
    LET content == FString(<<"Pattern Recognized: ", pattern_name.val, "\n",
                             description.val>>)
        pattern_entry ==
            PyDict(<< <<S("timestamp"), IsoFormat(t)>>,
                      <<S("pattern"), pattern_name>>,
                      <<S("description"), description>>,
                      <<S("evidence"), Or(evidence, PyDict(<<>>))>> >>)
        data == IF IsNewPattern(evolution_data, pattern_name)
                THEN ListAppend(evolution_data, "pattern_recognition", pattern_entry)
                ELSE evolution_data
    IN /\ running
       /\ log_thought(S("pattern_recognition"), content,
                      PyDict(<< <<S("pattern"), pattern_name>>,
                                <<S("evidence"), evidence>> >>),
                      notify_external, data, t)

learn_preference(preference_name, description, examples, notify_external, t) ==
    LET content == FString(<<"Learned Preference: ", preference_name.val, "\n",
                             description.val>>)
    IN /\ running
       /\ log_thought(S("user_interaction"), content,
                      PyDict(<< <<S("preference"), preference_name>>,
                                <<S("examples"), Or(examples, PyList(<<>>))>> >>),
                      notify_external, evolution_data, t)

understand_system(component, understanding, connections, notify_external, t) ==
    LET content == FString(<<"System Understanding: ", component.val, "\n",
                             understanding.val>>)
        record == PyDict(<< <<S("understanding"), understanding>>,
                            <<S("connections"), Or(connections, PyList(<<>>))>>,
                            <<S("learned"), IsoFormat(t)>> >>)
        data == Put(evolution_data, S("system_understanding"),
                    Put(Get(evolution_data, S("system_understanding")),
                        component, record))
    IN /\ running
       /\ log_thought(S("system_understanding"), content,
                      PyDict(<< <<S("component"), component>>,
                                <<S("connections"), Or(connections, PyList(<<>>))>> >>),
                      notify_external, data, t)

milestone(milestone_name, description, impact, notify_external, t) ==
    LET milestone_entry ==
            PyDict(<< <<S("timestamp"), IsoFormat(t)>>,
                      <<S("milestone"), milestone_name>>,
                      <<S("description"), description>>,
                      <<S("impact"), impact>> >>)
        content == FString(<<"Milestone: ", milestone_name.val, "\n",
                             description.val, "\nImpact: ", impact.val>>)
    IN /\ running
       /\ log_thought(S("learning"), content, milestone_entry, notify_external,
                      ListAppend(evolution_data, "learning_milestones",
                                 milestone_entry), t)

-----------------------------------------------------------------------------
(* Verification *)

\* f"{(verified/total)*100:.1f}%": the rate in tenths of a percent
Percent(verified, total) ==
    [kind |-> "pct", val |-> (2000 * verified + total) \div (2 * total)]

\* a plausible slip: an empty file is reported as 0.0% intact
IntegrityRateZero(verified, total) ==
    IF total > 0 THEN Percent(verified, total) ELSE Percent(0, 1)

\* f"{(verified/total)*100:.1f}%" if total > 0 else "N/A"
IntegrityRate(verified, total) ==
    IF total > 0 THEN Percent(verified, total) ELSE S("N/A")

\* the report verify_session builds from the lines of one session file
SessionReport(sid, lines) ==
    LET entries == [i \in 1..Len(lines) |-> JsonLoads(lines[i])]
        N(P(_)) == Cardinality({i \in 1..Len(entries) : P(entries[i])})
        missing_checksum == N(LAMBDA e : ~Has(e, S("checksum")))
        verified == N(LAMBDA e : Has(e, S("checksum")) /\ verify_integrity(e))
        tampered == N(LAMBDA e : Has(e, S("checksum")) /\ ~verify_integrity(e))
        total == verified + tampered + missing_checksum
    IN PyDict(<< <<S("session_file"), sid>>,
                 <<S("total_entries"), PyInt(total)>>,
                 <<S("verified"), PyInt(verified)>>,
                 <<S("tampered"), PyInt(tampered)>>,
                 <<S("missing_checksum"), PyInt(missing_checksum)>>,
                 <<S("integrity_rate"), IntegrityRate(verified, total)>> >>)

verify_session(sid) ==
    /\ running
    /\ sid \in DOMAIN session_files
    /\ result' = Return("verify_session", SessionReport(sid, session_files[sid]))
    /\ UNCHANGED <<now, disk, engine>>

-----------------------------------------------------------------------------------------------------------------------------------------------------
(* Inputs *)

ThoughtTypes == {S("problem_solving")}
Contents == {S("c")}
\* a mapping from line numbers to text, nested under a string key
CtxLines == PyDict(<< <<S("lines"),
                        PyDict(<< <<PyInt(2), S("x")>>, <<PyInt(10), S("y")>> >>)>> >>)
Contexts == {PyNone, PyDict(<<>>), CtxLines}
\* <<pattern_name, description, evidence>>
PatternCalls == {<<S("p1"), S("d1"), PyNone>>,
                 <<S("p1"), S("d2"), PyNone>>,
                 <<S("p2"), S("d1"), CtxLines>>}
\* <<component, understanding, connections>>
UnderstandingCalls == {<<S("auth"), S("d1"), PyList(<<S("db")>>)>>}

-----------------------------------------------------------------------------
(* Specification of the journal and the aggregate *)

Init ==
    /\ now = 0
    /\ state_file = Absent
    /\ plan_files = {}
    /\ markers = {}
    /\ evolution_file = Absent
    /\ session_files = <<>>
    /\ running = FALSE
    /\ session_id = PyNone
    /\ thoughts = <<>>
    /\ evolution_data = PyNone
    /\ echo_state = PyNone
    /\ result = Return("none", PyNone)

Startup ==
    \E t \in Clock : __init__(t)
LogThought ==
    \E k \in ThoughtTypes, c \in Contents, x \in Contexts, g \in BOOLEAN :
        log_thought(k, c, x, g, evolution_data, now)
RecognizePattern ==
    \E c \in PatternCalls :
        recognize_pattern(c[1], c[2], c[3], TRUE, now)
LearnPreference ==
    learn_preference(S("tdd"), S("d1"), PyNone, TRUE, now)
UnderstandSystem ==
    \E c \in UnderstandingCalls :
        understand_system(c[1], c[2], c[3], TRUE, now)
Milestone ==
    milestone(S("m1"), S("d1"), S("i1"), TRUE, now)
VerifySession ==
    verify_session(session_id)

Next ==
    \/ Startup
    \/ Exit
    \/ LogThought
    \/ RecognizePattern
    \/ LearnPreference
    \/ UnderstandSystem
    \/ Milestone
    \/ VerifySession

Spec == Init /\ [][Next]_vars

-----------------------------------------------------------------------------------------------------------------------------------------------------
(* Specification of the resume reconciler *)

\* state.json contents a caller can leave behind
PlanState == PyDict(<< <<S("version"), PyInt(1)>>,
                       <<S("current_plan"), S("p.md")>>,
                       <<S("current_step"), PyInt(2)>>,
                       <<S("args"), PyDict(<<>>)>> >>)
StateDocs ==
    {Garbage, Unreadable,
     TextFile(JsonDumps(PyList(<<>>), FALSE)),
     TextFile(JsonDumps(PlanState, FALSE)),
     TextFile(JsonDumps(Put(PlanState, S("current_plan"), PyInt(5)), FALSE)),
     TextFile(JsonDumps(Without(PlanState, S("current_plan")), FALSE))}

PlanNames == {"p.md"}

\* names the step executor, or anyone else, can leave in the checkpoint directory
MarkerNames ==
    {Name("step-", <<"1">>, ".ok"), Name("step-", <<"0", "1">>, ".ok"),
     Name("step-", <<"2">>, ".ok"), Name("step-", <<"3">>, ".ok"),
     Name("step-", <<"x">>, ".ok"), Name("step-", <<"-", "2">>, ".ok"),
     Name("step-", <<"4">>, ".tmp")}

\* the caller rewrites the resume state between two runs
WriteState ==
    /\ ~running
    /\ \E doc \in StateDocs : state_file' = doc
    /\ UNCHANGED <<now, plan_files, markers, evolution_file, session_files,
                   engine, result>>

\* the caller stores a plan file
WritePlan ==
    /\ ~running
    /\ \E p \in PlanNames \ plan_files : plan_files' = plan_files \cup {p}
    /\ UNCHANGED <<now, state_file, markers, evolution_file, session_files,
                   engine, result>>

\* the step executor marks a step as done
WriteMarker ==
    /\ ~running
    /\ Cardinality(markers) < MaxMarkers
    /\ \E m \in MarkerNames \ markers : markers' = markers \cup {m}
    /\ UNCHANGED <<now, state_file, plan_files, evolution_file, session_files,
                   engine, result>>

NextResume ==
    \/ Startup
    \/ Exit
    \/ WriteState
    \/ WritePlan
    \/ WriteMarker

SpecResume == Init /\ [][NextResume]_vars

-----
(* Claims *)

\* C1: every record log_thought returns, called directly or through
\* recognize_pattern, learn_preference, understand_system or milestone,
\* passes verify_integrity at the moment it is returned.
C1_ReturnedRecordVerifies ==
    (result.op = "log_thought" /\ result.outcome = "return")
        => verify_integrity(result.value)

\* a returned record with a nested, non-empty context that verifies
C1_Witness ==
    /\ result.op = "log_thought"
    /\ result.outcome = "return"
    /\ Get(result.value, S("type")) = S("pattern_recognition")
    /\ Truthy(Get(Get(result.value, S("context")), S("evidence")))
    /\ verify_integrity(result.value)

-----------------------------------------------------------------------------
\* the record log_thought has just written, as read back from the journal
PersistedLast ==
    LET lines == session_files[session_id]
    IN JsonLoads(lines[Len(lines)])

\* values a tamperer can write in place of a field
Replacements == {S("z"), PyNone}

RECURSIVE DictMutations(_)
\* the mappings that differ from d in one value, in one key, or in one value
\* or key of a mapping nested in d
DictMutations(d) ==
    LET n == Len(d.val)
        values == UNION {{Put(d, d.val[i][1], a) :
                            a \in Replacements \ {d.val[i][2]}} : i \in 1..n}
        keys == {PyDict([j \in 1..n |->
                            IF j = i THEN <<S("z"), d.val[j][2]>> ELSE d.val[j]]) :
                    i \in {i \in 1..n : ~Has(d, S("z"))}}
        nested == UNION {{Put(d, d.val[i][1], m) : m \in DictMutations(d.val[i][2])} :
                            i \in {i \in 1..n : d.val[i][2].kind = "dict"}}
    IN values \cup keys \cup nested

\* the records that differ from entry in the value of one field other than
\* checksum, or in one key or value inside context
SingleFieldMutations(entry) ==
    LET fields == {k \in Keys(entry) : k # S("checksum")}
    IN UNION {{Put(entry, k, a) : a \in Replacements \ {Get(entry, k)}} : k \in fields}
       \cup {Put(entry, S("context"), c) :
                c \in DictMutations(Get(entry, S("context")))}

\* C2: a persisted record in which one field other than checksum, or one key
\* or value inside context, has been changed fails verify_integrity.
C2_TamperedRecordFails ==
    (result.op = "log_thought" /\ result.outcome = "return")
        => \A m \in SingleFieldMutations(PersistedLast) : ~verify_integrity(m)

\* a persisted milestone record that verifies as written and fails once a
\* value inside its context is changed
C2_Witness ==
    /\ result.op = "log_thought"
    /\ Get(PersistedLast, S("type")) = S("learning")
    /\ verify_integrity(PersistedLast)
    /\ \E m \in SingleFieldMutations(PersistedLast) :
          /\ Get(m, S("context")) # Get(PersistedLast, S("context"))
          /\ Get(m, S("context")).kind = "dict"
          /\ ~verify_integrity(m)

\* C3: after n >= 1 log_thought calls by one engine, verify_session on the
\* engine's session file reports n entries, all of them verified.
C3_WriteThenVerify ==
    (result.op = "verify_session" /\ Len(thoughts) >= 1)
        => /\ Get(result.value, S("total_entries")) = PyInt(Len(thoughts))
           /\ Get(result.value, S("verified")) = PyInt(Len(thoughts))
           /\ Get(result.value, S("tampered")) = PyInt(0)
           /\ Get(result.value, S("missing_checksum")) = PyInt(0)

-----------------------------------------------------------------------------
\* the resume state names a plan whose file exists
StateNamesExistingPlan ==
    /\ state_file.kind = "file"
    /\ LET state == JsonLoads(state_file.val)
       IN /\ state.kind = "dict"
          /\ Has(state, S("current_plan"))
          /\ Get(state, S("current_plan")).kind = "str"
          /\ Get(state, S("current_plan")).val \in plan_files

\* the step numbers of the markers named step-<integer>.ok
ParsedSteps ==
    {IntOf(m[2]) : m \in {m \in markers : m[1] = "step-" /\ m[3] = ".ok"
                                           /\ IntParses(m[2])}}

Highest(set) == CHOOSE v \in set : \A w \in set : w <= v

RECURSIVE Ascending(_)
Ascending(set) ==
    IF set = {} THEN <<>>
    ELSE LET least == CHOOSE v \in set : \A w \in set : v <= w
         IN <<PyInt(least)>> \o Ascending(set \ {least})

\* C4: with a plan whose file exists, next_step is one more than the highest
\* step number among the markers that parse, and 1 when none parses.
C4_NextStepAfterHighest ==
    (running /\ StateNamesExistingPlan)
        => /\ Has(echo_state, S("next_step"))
           /\ Get(echo_state, S("next_step")) =
                 PyInt(IF ParsedSteps = {} THEN 1 ELSE Highest(ParsedSteps) + 1)

\* markers with a gap and a name that does not parse: step-1, step-3, step-x
C4_Witness ==
    /\ running
    /\ StateNamesExistingPlan
    /\ markers = {Name("step-", <<"1">>, ".ok"), Name("step-", <<"3">>, ".ok"),
                  Name("step-", <<"x">>, ".ok")}
    /\ Get(echo_state, S("next_step")) = PyInt(4)

\* C5: with a plan whose file exists, completed_steps is the ascending list
\* of the distinct step numbers among the markers.
C5_CompletedStepsDistinct ==
    (running /\ StateNamesExistingPlan)
        => /\ Has(echo_state, S("completed_steps"))
           /\ Get(echo_state, S("completed_steps")) = PyList(Ascending(ParsedSteps))

\* C6: whatever state.json holds, the constructor returns; an unreadable or
\* unparsable state.json gives no resume state.
C6_ResumeNeverBlocksStartup ==
    (result.op = "__init__")
        => /\ result.outcome = "return"
           /\ state_file.kind \in {"garbage", "unreadable"} => echo_state = PyNone

\* C7: when state.json names no plan, or names a plan whose file is absent,
\* resume_on_startup returns the state document itself, without plan_file,
\* completed_steps or next_step, whatever markers exist.
C7_RawStateWithoutPlan ==
    (running /\ state_file.kind = "file" /\ JsonLoads(state_file.val).kind = "dict")
        => LET state == JsonLoads(state_file.val)
               plan_name == GetOrNone(state, S("current_plan"))
           IN (\/ ~Truthy(plan_name)
               \/ (plan_name.kind = "str" /\ plan_name.val \notin plan_files))
                => /\ echo_state = state
                   /\ ~Has(echo_state, S("plan_file"))
                   /\ ~Has(echo_state, S("completed_steps"))
                   /\ ~Has(echo_state, S("next_step"))

\* a named plan without its file, with markers present
C7_Witness ==
    /\ running
    /\ state_file = TextFile(JsonDumps(PlanState, FALSE))
    /\ plan_files = {}
    /\ Cardinality(markers) >= 2
    /\ echo_state = PlanState

-----------------------------------------------------------------------------
Patterns == Get(evolution_data, S("pattern_recognition")).val

\* the step is a return of recognize_pattern
RecognizeStep ==
    /\ running
    /\ thoughts' = Append(thoughts, result'.value)
    /\ Get(result'.value, S("type")) = S("pattern_recognition")

\* C8: no two entries of pattern_recognition share a name, and recognizing a
\* name that is already recorded leaves the list as it is, first description
\* included.
C8_PatternNamesUnique ==
    [][/\ running' =>
            \A i, j \in 1..Len(Patterns') :
                Get(Patterns'[i], S("pattern")) = Get(Patterns'[j], S("pattern"))
                    => i = j
       /\ (RecognizeStep /\ Get(Get(result'.value, S("context")), S("pattern"))
                                \in PatternNames(evolution_data))
            => Patterns' = Patterns]_vars

\* p1 was recognized with d1 and then with d2; the aggregate holds p1 once,
\* with d1
C8_Witness ==
    /\ running
    /\ Len(thoughts) = 2
    /\ result.op = "log_thought"
    /\ Get(result.value, S("content")) =
          FString(<<"Pattern Recognized: ", "p1", "\n", "d2">>)
    /\ Get(thoughts[1], S("content")) =
          FString(<<"Pattern Recognized: ", "p1", "\n", "d1">>)
    /\ Len(Patterns) = 1
    /\ Get(Patterns[1], S("description")) = S("d1")

Counters == {"total_sessions", "total_thoughts", "external_signals_created"}

\* the counters as the file holds them
OnDisk(file) ==
    IF file.kind = "file"
    THEN LET data == JsonLoads(file.val)
         IN [c \in Counters |-> Get(data, S(c)).val]
    ELSE [c \in Counters |-> 0]

\* the counters as a running engine holds them, or as stored when none runs
Held(up, data, file) ==
    IF up THEN [c \in Counters |-> Get(data, S(c)).val] ELSE OnDisk(file)

\* C9: total_sessions, total_thoughts and external_signals_created never
\* decrease, in memory or on disk, across startups, operations and restarts.
C9_CountersNeverDecrease ==
    [][LET diskBefore == OnDisk(evolution_file)
           diskAfter == OnDisk(evolution_file')
           heldBefore == Held(running, evolution_data, evolution_file)
           heldAfter == Held(running', evolution_data', evolution_file')
       IN \A c \in Counters : /\ diskAfter[c] >= diskBefore[c]
                              /\ heldAfter[c] >= heldBefore[c]]_vars

\* a restarted engine that has loaded the thoughts of an earlier session
C9_Witness ==
    /\ running
    /\ thoughts = <<>>
    /\ Get(evolution_data, S("total_sessions")).val = 2
    /\ Get(evolution_data, S("total_thoughts")).val >= 1

\* C10: whenever the constructor or a mutating operation has returned,
\* evolution.json is the JSON text of the in-memory aggregate.
C10_AggregatePersisted ==
    running =>
        /\ evolution_file.kind = "file"
        /\ evolution_file.val = JsonDumps(evolution_data, FALSE)

\* understand_system has returned and the stored aggregate has the component
C10_Witness ==
    /\ running
    /\ result.op = "log_thought"
    /\ Get(result.value, S("type")) = S("system_understanding")
    /\ evolution_file.kind = "file"
    /\ Has(Get(JsonLoads(evolution_file.val), S("system_understanding")), S("auth"))
    /\ Get(evolution_data, S("total_thoughts")).val = 2

\* the session ids of the startups the aggregate has recorded, in order
StartedSessionIds ==
    LET ss == Get(evolution_data, S("sessions")).val
    IN [i \in 1..Len(ss) |-> Get(ss[i], S("session_id"))]

\* C11: any two startups against the same log directory obtain different
\* session_id values, two startups within one second included.
C11_SessionIdsUnique ==
    running =>
        \A i, j \in DOMAIN StartedSessionIds :
            i # j => StartedSessionIds[i] # StartedSessionIds[j]

IsPrefix(xs, ys) ==
    /\ Len(xs) <= Len(ys)
    /\ \A i \in 1..Len(xs) : xs[i] = ys[i]

\* C12: a successful log_thought adds exactly one record, the returned one, at
\* the end of the current session file, and no step of the engine changes or
\* removes a line already present in a session file.
C12_JournalAppendOnly ==
    [][/\ \A f \in DOMAIN session_files :
            /\ f \in DOMAIN session_files'
            /\ IsPrefix(session_files[f], session_files'[f])
       /\ Len(thoughts') = Len(thoughts) + 1 =>
            /\ session_id \in DOMAIN session_files'
            /\ session_files' =
                 [f \in (DOMAIN session_files) \cup {session_id} |->
                    IF f # session_id THEN session_files[f]
                    ELSE (IF f \in DOMAIN session_files
                          THEN session_files[f] ELSE <<>>)
                         \o <<JsonDumps(result'.value, FALSE)>>]
       /\ Len(thoughts') # Len(thoughts) + 1 =>
            session_files' = session_files]_vars

\* a second record has been appended behind an earlier one
C12_Witness ==
    /\ running
    /\ result.op = "log_thought"
    /\ session_id \in DOMAIN session_files
    /\ Len(session_files[session_id]) = 2
    /\ session_files[session_id][2] = JsonDumps(result.value, FALSE)
    /\ session_files[session_id][1] # session_files[session_id][2]

-----------------------------------------------------------------------------
(* Specification of the audit: verify_session over files that were edited *)

\* a session of an earlier day whose file is still in the log directory
OldSessionId == StrfTime(0 - 1)

\* the record a line holds, without its checksum / with another content
Stripped(line) == JsonDumps(Without(JsonLoads(line), S("checksum")), FALSE)
Altered(line) == JsonDumps(Put(JsonLoads(line), S("content"), S("z")), FALSE)

LogPlainThought ==
    \E x \in {PyNone, CtxLines} :
        log_thought(S("problem_solving"), S("c"), x, FALSE, evolution_data, now)

\* an empty session file is left in the directory
LeaveEmptySession ==
    /\ OldSessionId \notin DOMAIN session_files
    /\ session_files' = [f \in (DOMAIN session_files) \cup {OldSessionId} |->
                            IF f = OldSessionId THEN <<>> ELSE session_files[f]]
    /\ UNCHANGED <<now, state_file, plan_files, markers, evolution_file,
                   engine, result>>

\* somebody edits one line of a session file
EditRecord ==
    /\ \E f \in DOMAIN session_files, i \in 1..MaxThoughts :
        /\ i <= Len(session_files[f])
        /\ \E line \in {Stripped(session_files[f][i]), Altered(session_files[f][i])} :
            /\ line # session_files[f][i]
            /\ session_files' = [session_files EXCEPT ![f][i] = line]
    /\ UNCHANGED <<now, state_file, plan_files, markers, evolution_file,
                   engine, result>>

\* the caller audits any session file of the directory
VerifyAnySession ==
    \E f \in DOMAIN session_files : verify_session(f)

\* one run of the engine: the audit claims do not depend on restarts
NextAudit ==
    \/ Startup
    \/ LogPlainThought
    \/ LeaveEmptySession
    \/ EditRecord
    \/ VerifyAnySession

SpecAudit == Init /\ [][NextAudit]_vars

-----------------------------------------------------------------------------
(* Claims about the audit *)

\* a step in which verify_session returned its report
VerifyStep ==
    /\ result'.op = "verify_session"
    /\ result'.outcome = "return"
    /\ session_files' = session_files
    /\ running /\ running'

\* the records of the file a report is about
ReportedEntries(report) ==
    LET lines == session_files[Get(report, S("session_file"))]
    IN [i \in 1..Len(lines) |-> JsonLoads(lines[i])]

CountOf(entries, P(_)) == Cardinality({i \in DOMAIN entries : P(entries[i])})

\* C13: verify_integrity returns False for a record without a checksum field,
\* and verify_session counts such a record under missing_checksum and under
\* neither tampered nor verified, so the three counts partition the records.
C13_MissingChecksumUnverifiable ==
    [][/\ \A f \in DOMAIN session_files : \A i \in 1..Len(session_files[f]) :
            LET e == JsonLoads(session_files[f][i])
            IN ~Has(e, S("checksum")) => verify_integrity(e) = FALSE
       /\ VerifyStep =>
            LET report == result'.value
                entries == ReportedEntries(report)
                N(k) == Get(report, S(k)).val
            IN /\ N("missing_checksum")
                    = CountOf(entries, LAMBDA e : ~Has(e, S("checksum")))
               /\ N("verified") + N("tampered")
                    = CountOf(entries, LAMBDA e : Has(e, S("checksum")))
               /\ N("verified") + N("tampered") + N("missing_checksum")
                    = Len(entries)
               /\ N("total_entries") = Len(entries)]_vars

\* a report over a file holding one record without checksum and one with
C13_Witness ==
    /\ result.op = "verify_session"
    /\ Get(result.value, S("missing_checksum")) = PyInt(1)
    /\ Get(result.value, S("verified")) = PyInt(1)
    /\ Get(result.value, S("tampered")) = PyInt(0)
    /\ Get(result.value, S("total_entries")) = PyInt(2)
    /\ \E i \in 1..2 : ~Has(ReportedEntries(result.value)[i], S("checksum"))

\* C14: verify_session on a session file without records returns a report
\* with total_entries = 0 and integrity_rate "N/A".
C14_EmptyFileNotApplicable ==
    [][(/\ result'.op = "verify_session"
        /\ session_files' = session_files
        /\ running
        /\ \E f \in DOMAIN session_files :
              /\ session_files[f] = <<>>
              /\ Get(result'.value, S("session_file")) = f)
       => /\ result'.outcome = "return"
          /\ Get(result'.value, S("total_entries")) = PyInt(0)
          /\ Get(result'.value, S("integrity_rate")) = S("N/A")]_vars

\* the report on the empty file of the old session
C14_Witness ==
    /\ result.op = "verify_session"
    /\ result.outcome = "return"
    /\ Get(result.value, S("session_file")) = OldSessionId
    /\ session_files[OldSessionId] = <<>>
    /\ Get(result.value, S("integrity_rate")) = S("N/A")

-----------------------------------------------------------------------------
(* Specification of the canonical form: records built in different orders *)

\* the sequences holding the elements of seq in any order
SeqOrders(seq) ==
    {[i \in 1..Len(seq) |-> seq[p[i]]] :
        p \in {q \in [1..Len(seq) -> 1..Len(seq)] :
                  \A i, j \in 1..Len(seq) : q[i] = q[j] => i = j}}

RECURSIVE Orders(_)
\* the values that hold what v holds, every mapping in any insertion order
Orders(v) ==
    CASE v.kind = "dict" ->
            UNION {{PyDict(items) :
                       items \in {c \in [1..Len(seq) -> UNION {{<<seq[i][1], w>> :
                                          w \in Orders(seq[i][2])} : i \in 1..Len(seq)}] :
                                     \A i \in 1..Len(seq) :
                                        /\ c[i][1] = seq[i][1]
                                        /\ c[i][2] \in Orders(seq[i][2])}} :
                   seq \in SeqOrders(v.val)}
      [] v.kind = "list" ->
            {PyList(xs) : xs \in {c \in [1..Len(v.val) -> UNION {Orders(v.val[i]) :
                                                             i \in 1..Len(v.val)}] :
                                     \A i \in 1..Len(v.val) : c[i] \in Orders(v.val[i])}}
      [] OTHER -> {v}

\* a context with a nested mapping, and one with a mapping inside a list
CtxNested ==
    PyDict(<< <<S("b"), PyInt(1)>>,
              <<S("a"), PyDict(<< <<PyInt(10), S("y")>>, <<PyInt(2), S("x")>> >>)>> >>)
CtxTagged ==
    PyDict(<< <<S("tags"), PyList(<<PyDict(<< <<S("z"), PyNone>>,
                                              <<S("value"), PyBool(TRUE)>> >>)>>)>> >>)

\* the record rebuilt by a caller: fields as they are or in reverse order,
\* the context in any order
Reorderings(entry) ==
    LET Reverse(seq) == [i \in 1..Len(seq) |-> seq[Len(seq) + 1 - i]]
    IN UNION {{Put(entry, S("context"), x),
               PyDict(Reverse(Put(entry, S("context"), x).val))} :
              x \in Orders(Get(entry, S("context")))}

LogOrdered ==
    \E c \in {S("c"), S("z")}, x \in Orders(CtxNested) \cup Orders(CtxTagged) :
        log_thought(S("problem_solving"), c, x, FALSE, evolution_data, now)

\* the caller hashes a rebuilt copy of a record of this session
HashReordered ==
    /\ running
    /\ \E i \in 1..MaxThoughts :
        /\ i <= Len(thoughts)
        /\ \E p \in Reorderings(thoughts[i]) :
            result' = Return("_hash_entry", _hash_entry(p))
    /\ UNCHANGED <<now, disk, engine>>

NextCanon ==
    \/ Startup
    \/ LogOrdered
    \/ HashReordered

SpecCanon == Init /\ [][NextCanon]_vars

RECURSIVE SamePairs(_, _)
\* a and b hold the same key-value pairs, whatever the insertion orders
SamePairs(a, b) ==
    /\ a.kind = b.kind
    /\ CASE a.kind = "dict" ->
              /\ Len(a.val) = Len(b.val)
              /\ \A k \in Keys(a) : Has(b, k) /\ SamePairs(Get(a, k), Get(b, k))
         [] a.kind = "list" ->
              /\ Len(a.val) = Len(b.val)
              /\ \A i \in 1..Len(a.val) : SamePairs(a.val[i], b.val[i])
         [] OTHER -> a = b

\* C15: records that hold the same key-value pairs, in the record and in the
\* nested context, in different insertion orders have the same _hash_entry
\* digest.
C15_HashOrderIndependent ==
    /\ \A i \in DOMAIN thoughts : \A p \in Reorderings(thoughts[i]) :
          _hash_entry(p) = _hash_entry(thoughts[i])
    /\ \A i, j \in DOMAIN thoughts :
          SamePairs(Without(thoughts[i], S("checksum")),
                    Without(thoughts[j], S("checksum")))
              => Get(thoughts[i], S("checksum")) = Get(thoughts[j], S("checksum"))
    /\ result.op = "_hash_entry" =>
          \E i \in DOMAIN thoughts : result.value = Get(thoughts[i], S("checksum"))

\* two records of one second whose contexts differ in the order of the outer
\* and of the nested mapping, and the digest of a rebuilt copy
C15_Witness ==
    /\ Len(thoughts) = 2
    /\ result.op = "_hash_entry"
    /\ result.value = Get(thoughts[2], S("checksum"))
    /\ SamePairs(Get(thoughts[1], S("context")), Get(thoughts[2], S("context")))
    /\ Get(thoughts[1], S("context")).val[1][1] # Get(thoughts[2], S("context")).val[1][1]
    /\ Get(Get(thoughts[1], S("context")), S("a"))
          # Get(Get(thoughts[2], S("context")), S("a"))
    /\ JsonDumps(thoughts[1], FALSE) # JsonDumps(thoughts[2], FALSE)

-----------------------------------------------------------------------------
(* Specification of the resume inputs under a working engine *)

LogBareThought ==
    log_thought(S("problem_solving"), S("c"), PyNone, FALSE, evolution_data, now)

\* the caller deletes state.json, whether or not an engine is running
RemoveState ==
    /\ state_file.kind # "absent"
    /\ state_file' = Absent
    /\ UNCHANGED <<now, plan_files, markers, evolution_file, session_files,
                   engine, result>>

\* the step executor marks the step after the last marked one as done
MarkNextStep ==
    /\ ~running
    /\ Cardinality(markers) < MaxMarkers
    /\ markers' = markers \cup
                    {Name("step-", <<ToString(Cardinality(markers) + 1)>>, ".ok")}
    /\ UNCHANGED <<now, state_file, plan_files, evolution_file, session_files,
                   engine, result>>

NextFrame ==
    \/ Startup
    \/ Exit
    \/ LogBareThought
    \/ VerifySession
    \/ WriteState
    \/ WritePlan
    \/ MarkNextStep
    \/ RemoveState

SpecFrame == Init /\ [][NextFrame]_vars

\* a step taken by the engine: the caller's steps leave these alone
EngineStep ==
    <<now, evolution_file, session_files, engine, result>>'
        # <<now, evolution_file, session_files, engine, result>>

SeededState ==
    TextFile(JsonDumps(PyDict(<< <<S("version"), PyInt(1)>>,
                                 <<S("current_plan"), PyNone>>,
                                 <<S("current_step"), PyInt(0)>>,
                                 <<S("args"), PyDict(<<>>)>> >>), FALSE))

\* C17: the engine writes state.json only at startup and only when it is
\* absent, with version 1, no plan, step 0 and empty args; an existing
\* state.json, the plan files and the checkpoint markers are left as they are
\* by startup, resume_on_startup and every other operation.
C17_ResumeInputsNotMutated ==
    [][EngineStep =>
          /\ plan_files' = plan_files
          /\ markers' = markers
          /\ \/ state_file' = state_file
             \/ /\ state_file.kind = "absent"
                /\ ~running
                /\ result'.op = "__init__"
                /\ state_file' = SeededState]_vars

\* an engine that started on a caller's state document, plan and markers has
\* logged a thought, and all three are still there
C17_Witness ==
    /\ running
    /\ result.op = "log_thought"
    /\ state_file = TextFile(JsonDumps(PlanState, FALSE))
    /\ echo_state.kind = "dict"
    /\ Has(echo_state, S("next_step"))
    /\ plan_files = PlanNames
    /\ Cardinality(markers) >= 2

-----------------------------------------------------------------------------
(* Specification of log_thought step by step, with crashes *)

\* a plausible slip: the counter is persisted before the journal line is written
DurableAfterAggregate(files, file, sid, line, data) ==
    [journal |-> files, aggregate |-> CountThenSave(data).file]

\* the two files once log_thought has closed the session file (line 244) and
\* has not yet reached _save_evolution (line 247)
DurableAfterJournal(files, file, sid, line, data) ==
    [journal |-> AppendLine(files, sid, line), aggregate |-> file]

\* a call that has not returned yet
Pending(op, v) == [op |-> op, outcome |-> "pending", value |-> v]
InProgress(r) == r.outcome = "pending"

\* log_thought up to and including the write of the journal line
BeginAppend ==
    \E x \in {PyNone, CtxLines} :
        LET thought_entry ==
                AttachChecksum(ThoughtFields(S("problem_solving"), S("c"), x,
                                             FALSE, now))
            durable == DurableAfterJournal(session_files, evolution_file,
                                           session_id,
                                           JsonDumps(thought_entry, FALSE),
                                           evolution_data)
        IN /\ running
           /\ ~InProgress(result)
           /\ JournalLines < MaxThoughts
           /\ thoughts' = Append(thoughts, thought_entry)
           /\ session_files' = durable.journal
           /\ evolution_file' = durable.aggregate
           /\ result' = Pending("log_thought", thought_entry)
           /\ UNCHANGED <<now, state_file, plan_files, markers, running,
                          session_id, evolution_data, echo_state>>

\* the rest of log_thought: count, persist, return
FinishAppend ==
    LET updated == CountThenSave(evolution_data)
    IN /\ running
       /\ InProgress(result)
       /\ evolution_data' = updated.memory
       /\ evolution_file' = updated.file
       /\ result' = Return("log_thought", result.value)
       /\ UNCHANGED <<now, state_file, plan_files, markers, session_files,
                      running, session_id, thoughts, echo_state>>

\* the process ends in an orderly way, between two calls
CleanExit ==
    /\ ~InProgress(result)
    /\ Exit

\* the process is killed, between two calls or between the two writes
Crash ==
    /\ running
    /\ NoEngine
    /\ result' = Raise("crash", "killed")
    /\ UNCHANGED <<now, disk>>

\* the process is killed inside _save_evolution, after open(..., "w") has
\* truncated evolution.json and before the text is flushed
CrashInSave ==
    /\ running
    /\ InProgress(result)
    /\ NoEngine
    /\ evolution_file' = Garbage
    /\ result' = Raise("crash", "killed")
    /\ UNCHANGED <<now, state_file, plan_files, markers, session_files>>

NextCrash ==
    \/ Startup
    \/ CleanExit
    \/ BeginAppend
    \/ FinishAppend
    \/ Crash
    \/ CrashInSave

SpecCrash == Init /\ [][NextCrash]_vars

RECURSIVE Records(_)
\* the number of records in all session files
Records(files) ==
    IF DOMAIN files = {} THEN 0
    ELSE LET f == CHOOSE f \in DOMAIN files : TRUE
         IN Len(files[f]) + Records([g \in (DOMAIN files) \ {f} |-> files[g]])

\* total_thoughts as evolution.json holds it; nothing is counted before the
\* file exists
Persisted(file) ==
    IF file.kind = "file"
    THEN Get(JsonLoads(file.val), S("total_thoughts")).val ELSE 0

\* every record is counted, but for the one of a call that has not returned
Settled(file, files, r) ==
    Records(files) = Persisted(file) + (IF InProgress(r) THEN 1 ELSE 0)

\* C18: the total_thoughts that evolution.json holds is never more than the
\* number of records in all session files, crashes between the journal write
\* and the save and later restarts included; and as long as no crash happens
\* the two are equal whenever no append is in progress.
C18_CountAtMostJournal ==
    [][/\ evolution_file'.kind # "garbage" =>
            Persisted(evolution_file') <= Records(session_files')
       /\ (/\ result'.op # "crash"
           /\ evolution_file.kind # "garbage"
           /\ Settled(evolution_file, session_files, result))
          => Settled(evolution_file', session_files', result')]_vars

\* a crash between the two writes left one record uncounted, and a later run
\* has appended and counted another
C18_Witness ==
    /\ running
    /\ result.op = "log_thought"
    /\ result.outcome = "return"
    /\ Records(session_files) = 2
    /\ Persisted(evolution_file) = 1
    /\ Get(evolution_data, S("total_sessions")).val = 2

-----------------------------------------------------------------------------
(* Specification of log_thought with a storage that can refuse the write *)

\* log_thought when open(self.session_file, "a") or the write raises OSError:
\* the lines before it have run, the lines after it have not.  created says
\* whether open() got as far as creating the file.
log_thought_write_fails(thought_type, content, context, created, t) ==
    LET thought_entry ==
            AttachChecksum(ThoughtFields(thought_type, content, context, FALSE, t))
    IN /\ running
       /\ Len(thoughts) < MaxThoughts
       /\ thoughts' = Append(thoughts, thought_entry)
       /\ session_files' =
            IF created /\ session_id \notin DOMAIN session_files
            THEN [f \in (DOMAIN session_files) \cup {session_id} |->
                     IF f = session_id THEN <<>> ELSE session_files[f]]
            ELSE session_files
       /\ result' = Raise("log_thought", "OSError")
       /\ UNCHANGED <<now, state_file, plan_files, markers, evolution_file,
                      running, session_id, evolution_data, echo_state>>

WriteFails ==
    \E x \in {PyNone, CtxLines}, created \in BOOLEAN :
        log_thought_write_fails(S("problem_solving"), S("c"), x, created, now)

NextWriteFail ==
    \/ Startup
    \/ Exit
    \/ LogPlainThought
    \/ WriteFails

SpecWriteFail == Init /\ [][NextWriteFail]_vars

\* the lines of the session file of the running engine
OwnLines(files, sid) == IF sid \in DOMAIN files THEN files[sid] ELSE <<>>

\* the in-memory buffer holds the records of the session file, in order
BufferIsFile(buffer, files, sid) ==
    /\ Len(buffer) = Len(OwnLines(files, sid))
    /\ \A i \in 1..Len(buffer) :
          JsonDumps(buffer[i], FALSE) = OwnLines(files, sid)[i]

\* C19: a log_thought whose journal write fails raises and leaves the thoughts
\* list and the aggregate counters as they were, so the in-memory buffer still
\* equals the records of the session file.
C19_FailedWriteLeavesState ==
    [][(running /\ result'.op = "log_thought" /\ result'.outcome = "raise")
          => /\ thoughts' = thoughts
             /\ evolution_data' = evolution_data
             /\ BufferIsFile(thoughts, session_files, session_id)
                   => BufferIsFile(thoughts', session_files', session_id')]_vars

-----------------------------------------------------------------------------
(* Claims about the emitted resume payload *)

\* C20: in every resume payload next_step is at least 1 and greater than
\* every element of completed_steps, whatever step-*.ok names the checkpoint
\* directory holds, names with a zero or negative number included.
C20_NextStepPositive ==
    (running /\ echo_state.kind = "dict" /\ Has(echo_state, S("next_step")))
        => LET next_step == Get(echo_state, S("next_step")).val
               completed_steps == Get(echo_state, S("completed_steps")).val
           IN /\ next_step >= 1
              /\ \A i \in 1..Len(completed_steps) :
                    completed_steps[i].val < next_step

====
